---------------------------- MODULE Spec2Model ----------------------------
(***************************************************************************)
(* The board orchestration controller (BoardPresenter) of the task         *)
(* manager, with the collaborators it drives: the task collection model,   *)
(* the filter selection model, the item controllers (TaskPresenter), the   *)
(* creation controller (TaskNewPresenter) and the UI blocker.              *)
(*                                                                         *)
(* BoardPresenter is translated from src/src/view/task-view.js.  The       *)
(* collaborators are imported by that file but their code is not part of   *)
(* the sources; they are modelled from the design document.                *)
(***************************************************************************)
EXTENDS Integers, Sequences, FiniteSets, TLC

(***************************************************************************)
(* Bounds of the model.                                                    *)
(***************************************************************************)
\* The largest initial collection holds MaxTasks tasks, with ids 1..MaxTasks.
MaxTasks == 10
\* The user's gestures on cards are on the tasks with ids 1..MaxTouched.
MaxTouched == 1
\* handleViewAction is invoked at most MaxActions times in a behaviour.
MaxActions == 2
\* Due dates are the days 1..MaxDue; NoDate is the absent due date (null).
MaxDue == 2
NoDate == 0

(***************************************************************************)
(* Program constants.                                                      *)
(***************************************************************************)
TASK_COUNT_PER_STEP == 8
LOWER_LIMIT == 350
UPPER_LIMIT == 1000

SortType == {"DEFAULT", "DATE_UP", "DATE_DOWN"}
UpdateType == {"PATCH", "MINOR", "MAJOR", "INIT"}
UserAction == {"UPDATE_TASK", "ADD_TASK", "DELETE_TASK"}
FilterType == {"ALL", "FAVORITES"}

\* The view states of an item controller and of the creation controller.
ItemState == {"IDLE", "EDITING", "SAVING", "DELETING", "ABORTING"}
NewState == {"INACTIVE", "ACTIVE", "SAVING", "ABORTING"}

Min(a, b) == IF a < b THEN a ELSE b
Max(a, b) == IF a < b THEN b ELSE a

(***************************************************************************)
(* Tasks.  A task is a record of its id and of the two fields the filter   *)
(* and the sort read: isFavorite and dueDate.                              *)
(***************************************************************************)
Task(i, fav, due) == [id |-> i, isFavorite |-> fav, dueDate |-> due]

\* The collection the server holds, n tasks long: every second task is a
\* favorite; the tasks are due on day 1, the last one on day MaxDue.
InitialTask(i, n) == Task(i, i % 2 = 0, IF i = n /\ n > 1 THEN MaxDue ELSE 1)
InitialCollection(n) == [i \in 1..n |-> InitialTask(i, n)]
InitialLengths == {0, 1, 2, MaxTasks}

Ids(ts) == {ts[i].id : i \in 1..Len(ts)}

(***************************************************************************)
(* utils/filter.js: the predicate of each filter category.                 *)
(***************************************************************************)
filterPredicate(f, t) == IF f = "FAVORITES" THEN t.isFavorite ELSE TRUE
filter(f, ts) == SelectSeq(ts, LAMBDA t : filterPredicate(f, t))

(***************************************************************************)
(* utils/task.js: the comparators.  A comparator answers a negative        *)
(* number, 0 or a positive number; a task without a due date is the        *)
(* greater one in both directions.                                         *)
(***************************************************************************)
NoWeight == 2
getWeightForNullDate(dateA, dateB) ==
    IF dateA = NoDate /\ dateB = NoDate THEN 0
    ELSE IF dateA = NoDate THEN 1
    ELSE IF dateB = NoDate THEN -1
    ELSE NoWeight

sortTaskUp(a, b) ==
    LET weight == getWeightForNullDate(a.dueDate, b.dueDate)
    IN IF weight # NoWeight THEN weight ELSE a.dueDate - b.dueDate

sortTaskDown(a, b) ==
    LET weight == getWeightForNullDate(a.dueDate, b.dueDate)
    IN IF weight # NoWeight THEN weight ELSE b.dueDate - a.dueDate

compare(sortType, a, b) ==
    IF sortType = "DATE_UP" THEN sortTaskUp(a, b) ELSE sortTaskDown(a, b)

\* Array.prototype.sort: a stable sort.  x goes behind every element that
\* does not compare greater than x.
RECURSIVE insertSorted(_, _, _)
insertSorted(sorted, x, sortType) ==
    IF sorted = << >> THEN << x >>
    ELSE IF compare(sortType, Head(sorted), x) > 0
         THEN << x >> \o sorted
         ELSE << Head(sorted) >> \o insertSorted(Tail(sorted), x, sortType)

RECURSIVE sortFrom(_, _, _)
sortFrom(done, rest, sortType) ==
    IF rest = << >> THEN done
    ELSE sortFrom(insertSorted(done, Head(rest), sortType), Tail(rest), sortType)

sort(ts, sortType) == sortFrom(<< >>, ts, sortType)

(***************************************************************************)
(* The state.                                                              *)
(***************************************************************************)
VARIABLES
    tasksModel,               \* #tasksModel.tasks: the collection, a sequence of tasks
    filterModel,              \* #filterModel.filter: the active filter category
    currentSortType,          \* #currentSortType
    renderedTaskCount,        \* #renderedTaskCount
    isLoading,                \* #isLoading
    taskPresenter,            \* #taskPresenter: the map from a task id to its item controller
    detached,                 \* the item controllers the map dropped without destroying them
    taskNewPresenter,         \* the view state of the creation controller
    sortComponent,            \* whether the sort control is in the document
    loadMoreButtonComponent,  \* whether the load-more control is in the document
    noTaskComponent,          \* whether the empty-state placeholder is in the document
    loadingComponent,         \* whether the loading indicator is in the document
    taskListComponent,        \* whether the task list is in the document
    uiBlocker,                \* the UI blocker
    pending,                  \* the handleViewAction invocations that await the model
    started,                  \* how many times handleViewAction was invoked
    unblocked,                \* how many invocations reached this.#uiBlocker.unblock()
    lastEvent                 \* the operation that ran last

boardVars == << currentSortType, renderedTaskCount, isLoading, taskPresenter, detached,
                taskNewPresenter, sortComponent, loadMoreButtonComponent,
                noTaskComponent, loadingComponent, taskListComponent >>
vars == << tasksModel, filterModel, boardVars, uiBlocker, pending, started, unblocked,
           lastEvent >>

\* The models and the board as one value, which the handlers below transform.
\* threw: a TypeError was raised and not caught so far; observerThrew: an
\* observer of the model raised one; created, destroyed: how many item
\* controllers the handler has constructed and destroyed; calls: what the
\* handler has completed, in order (a notification by its update type,
\* "setAborting", "unblock").
World ==
    [ tasksModel |-> tasksModel, filterModel |-> filterModel,
      currentSortType |-> currentSortType, renderedTaskCount |-> renderedTaskCount,
      isLoading |-> isLoading, taskPresenter |-> taskPresenter, detached |-> detached,
      taskNewPresenter |-> taskNewPresenter, sortComponent |-> sortComponent,
      loadMoreButtonComponent |-> loadMoreButtonComponent,
      noTaskComponent |-> noTaskComponent, loadingComponent |-> loadingComponent,
      taskListComponent |-> taskListComponent, uiBlocker |-> uiBlocker,
      threw |-> FALSE, observerThrew |-> FALSE, created |-> 0, destroyed |-> 0,
      calls |-> << >> ]

\* The state becomes the world w.
Become(w) ==
    /\ tasksModel' = w.tasksModel
    /\ filterModel' = w.filterModel
    /\ currentSortType' = w.currentSortType
    /\ renderedTaskCount' = w.renderedTaskCount
    /\ isLoading' = w.isLoading
    /\ taskPresenter' = w.taskPresenter
    /\ detached' = w.detached
    /\ taskNewPresenter' = w.taskNewPresenter
    /\ sortComponent' = w.sortComponent
    /\ loadMoreButtonComponent' = w.loadMoreButtonComponent
    /\ noTaskComponent' = w.noTaskComponent
    /\ loadingComponent' = w.loadingComponent
    /\ taskListComponent' = w.taskListComponent
    /\ uiBlocker' = w.uiBlocker

(***************************************************************************)
(* TaskPresenter, the item controller: the task it shows and its view      *)
(* state.                                                                  *)
(***************************************************************************)
\* new TaskPresenter(...) followed by init(task)
newTaskPresenter(task) == [task |-> task, state |-> "IDLE"]
\* init(task) on a controller that exists: it shows the new data, idle
initPresenter(p, task) == [p EXCEPT !.task = task, !.state = "IDLE"]
\* resetView(): an open edit form is closed without saving
resetView(p) == IF p.state = "EDITING" THEN [p EXCEPT !.state = "IDLE"] ELSE p
setSaving(p) == [p EXCEPT !.state = "SAVING"]
setDeleting(p) == [p EXCEPT !.state = "DELETING"]
setAborting(p) == [p EXCEPT !.state = "ABORTING"]
\* presenter.<method>()
call(p, method) ==
    CASE method = "setSaving" -> setSaving(p)
      [] method = "setDeleting" -> setDeleting(p)
      [] method = "setAborting" -> setAborting(p)

(***************************************************************************)
(* TaskNewPresenter, the creation controller.                              *)
(***************************************************************************)
\* init(callback): the form is shown, unless it is shown already
newInit(s) == IF s = "INACTIVE" THEN "ACTIVE" ELSE s
\* destroy(): the form is removed
newDestroy(s) == "INACTIVE"
\* setSaving() and setAborting() act on the form that is shown
newSetSaving(s) == IF s = "INACTIVE" THEN s ELSE "SAVING"
newSetAborting(s) == IF s = "INACTIVE" THEN s ELSE "ABORTING"

(***************************************************************************)
(* UiBlocker.  elapsed is the time since block(): 0 before the lower       *)
(* limit, LOWER_LIMIT from the lower limit on.                             *)
(***************************************************************************)
UiBlockerIdle == [blocked |-> FALSE, elapsed |-> 0, unblockRequested |-> FALSE]

block(u) == IF u.blocked THEN u
            ELSE [blocked |-> TRUE, elapsed |-> 0, unblockRequested |-> FALSE]

\* unblock() releasing the UI at once, whatever time has passed.
unblockAtOnce(u) == UiBlockerIdle

unblock(u) == IF ~u.blocked THEN u
              ELSE IF u.elapsed < LOWER_LIMIT THEN [u EXCEPT !.unblockRequested = TRUE]
              ELSE UiBlockerIdle

(***************************************************************************)
(* BoardPresenter.                                                         *)
(***************************************************************************)
\* get tasks() sorting this.#tasksModel.tasks in place of filteredTasks.
tasksSortingTheCollection(w) ==
    LET filteredTasks == filter(w.filterModel, w.tasksModel)
    IN IF w.currentSortType \in {"DATE_UP", "DATE_DOWN"}
       THEN sort(w.tasksModel, w.currentSortType)
       ELSE filteredTasks

\* get tasks() with sortTaskUp in both cases of the switch.
tasksSortingUp(w) ==
    LET filteredTasks == filter(w.filterModel, w.tasksModel)
    IN IF w.currentSortType \in {"DATE_UP", "DATE_DOWN"}
       THEN sort(filteredTasks, "DATE_UP")
       ELSE filteredTasks

\* get tasks()
tasks(w) ==
    LET filteredTasks == filter(w.filterModel, w.tasksModel)
    IN IF w.currentSortType \in {"DATE_UP", "DATE_DOWN"}
       THEN sort(filteredTasks, w.currentSortType)
       ELSE filteredTasks

\* #renderTask: the new controller takes the task id's place in the map; a
\* controller that held the place is dropped from the map, not destroyed.
renderTask(w, task) ==
    [w EXCEPT
        !.created = @ + 1,
        !.detached = IF task.id \in DOMAIN w.taskPresenter
                     THEN Append(@, w.taskPresenter[task.id]) ELSE @,
        !.taskPresenter = [i \in DOMAIN @ \cup {task.id} |->
                              IF i = task.id THEN newTaskPresenter(task) ELSE @[i]]]

RECURSIVE renderTasks(_, _)
renderTasks(w, ts) ==
    IF ts = << >> THEN w ELSE renderTasks(renderTask(w, Head(ts)), Tail(ts))

\* Array.prototype.slice(from, to), from and to counted from 0
slice(ts, from, to) == SubSeq(ts, from + 1, Min(to, Len(ts)))

\* #clearBoard without the correction of lines 323-328: the count of shown
\* tasks is kept when it is not reset.
clearBoardKeepingCount(w, resetRenderedTaskCount, resetSortType) ==
    [w EXCEPT
       !.taskNewPresenter = newDestroy(@),
       !.taskPresenter = << >>,
       !.destroyed = @ + Cardinality(DOMAIN w.taskPresenter),
       !.sortComponent = FALSE,
       !.loadingComponent = FALSE,
       !.loadMoreButtonComponent = FALSE,
       !.noTaskComponent = FALSE,
       !.renderedTaskCount = IF resetRenderedTaskCount THEN TASK_COUNT_PER_STEP ELSE @,
       !.currentSortType = IF resetSortType THEN "DEFAULT" ELSE @]

\* #clearBoard
clearBoard(w, resetRenderedTaskCount, resetSortType) ==
    LET taskCount == Len(tasks(w))
    IN [w EXCEPT
          !.taskNewPresenter = newDestroy(@),
          !.taskPresenter = << >>,
          !.destroyed = @ + Cardinality(DOMAIN w.taskPresenter),
          !.sortComponent = FALSE,
          !.loadingComponent = FALSE,
          !.loadMoreButtonComponent = FALSE,
          !.noTaskComponent = FALSE,
          !.renderedTaskCount = IF resetRenderedTaskCount THEN TASK_COUNT_PER_STEP
                                ELSE Min(taskCount, @),
          !.currentSortType = IF resetSortType THEN "DEFAULT" ELSE @]

\* #renderBoard
renderBoard(w) ==
    IF w.isLoading THEN [w EXCEPT !.loadingComponent = TRUE]
    ELSE LET ts == tasks(w)
             taskCount == Len(ts)
         IN IF taskCount = 0 THEN [w EXCEPT !.noTaskComponent = TRUE]
            ELSE LET w1 == [w EXCEPT !.sortComponent = TRUE, !.taskListComponent = TRUE]
                     w2 == renderTasks(w1, slice(ts, 0, Min(taskCount, w.renderedTaskCount)))
                 IN IF taskCount > w.renderedTaskCount
                    THEN [w2 EXCEPT !.loadMoreButtonComponent = TRUE]
                    ELSE w2

\* #handleModelEvent with the break of line 246 missing: a Patch goes on
\* into the Minor case.
handleModelEventFallingThrough(w, updateType, data) ==
    LET done == [w EXCEPT !.calls = Append(@, updateType)]
    IN CASE updateType = "PATCH" ->
              IF data.id \in DOMAIN w.taskPresenter
              THEN renderBoard(clearBoard(
                       [done EXCEPT !.taskPresenter[data.id] = initPresenter(@, data)],
                       FALSE, FALSE))
              ELSE [w EXCEPT !.threw = TRUE]
         [] updateType = "MINOR" -> renderBoard(clearBoard(done, FALSE, FALSE))
         [] updateType = "MAJOR" -> renderBoard(clearBoard(done, TRUE, TRUE))
         [] updateType = "INIT" ->
              renderBoard([done EXCEPT !.isLoading = FALSE, !.loadingComponent = FALSE])

\* #handleModelEvent
handleModelEvent(w, updateType, data) ==
    LET done == [w EXCEPT !.calls = Append(@, updateType)]
    IN CASE updateType = "PATCH" ->
              IF data.id \in DOMAIN w.taskPresenter
              THEN [done EXCEPT !.taskPresenter[data.id] = initPresenter(@, data)]
              ELSE [w EXCEPT !.threw = TRUE]
         [] updateType = "MINOR" -> renderBoard(clearBoard(done, FALSE, FALSE))
         [] updateType = "MAJOR" -> renderBoard(clearBoard(done, TRUE, TRUE))
         [] updateType = "INIT" ->
              renderBoard([done EXCEPT !.isLoading = FALSE, !.loadingComponent = FALSE])

\* #handleSortTypeChange
handleSortTypeChange(w, sortType) ==
    IF w.currentSortType = sortType THEN w
    ELSE renderBoard(clearBoard([w EXCEPT !.currentSortType = sortType], TRUE, FALSE))

\* #handleLoadMoreButtonClick without the Math.min of line 193.
handleLoadMoreButtonClickUnbounded(w) ==
    LET taskCount == Len(tasks(w))
        newRenderedTaskCount == w.renderedTaskCount + TASK_COUNT_PER_STEP
        ts == slice(tasks(w), w.renderedTaskCount, newRenderedTaskCount)
        w1 == renderTasks(w, ts)
        w2 == [w1 EXCEPT !.renderedTaskCount = newRenderedTaskCount]
    IN IF w2.renderedTaskCount >= taskCount
       THEN [w2 EXCEPT !.loadMoreButtonComponent = FALSE]
       ELSE w2

\* #handleLoadMoreButtonClick
handleLoadMoreButtonClick(w) ==
    LET taskCount == Len(tasks(w))
        newRenderedTaskCount == Min(taskCount, w.renderedTaskCount + TASK_COUNT_PER_STEP)
        ts == slice(tasks(w), w.renderedTaskCount, newRenderedTaskCount)
        w1 == renderTasks(w, ts)
        w2 == [w1 EXCEPT !.renderedTaskCount = newRenderedTaskCount]
    IN IF w2.renderedTaskCount >= taskCount
       THEN [w2 EXCEPT !.loadMoreButtonComponent = FALSE]
       ELSE w2

\* #handleModeChange
handleModeChange(w) ==
    [w EXCEPT !.taskNewPresenter = newDestroy(@),
              !.taskPresenter = [i \in DOMAIN @ |-> resetView(@[i])]]

\* FilterModel.setFilter(updateType, filter): the filter is set and the
\* observers are notified.
setFilter(w, updateType, f) ==
    handleModelEvent([w EXCEPT !.filterModel = f], updateType, f)

\* createTask
createTask(w) ==
    LET w1 == [w EXCEPT !.currentSortType = "DEFAULT"]
        w2 == setFilter(w1, "MAJOR", "ALL")
    IN [w2 EXCEPT !.taskNewPresenter = newInit(@)]

(***************************************************************************)
(* TasksModel: the operations answer later, by resolving or by rejecting.  *)
(* An operation that resolves has changed the collection and notified the  *)
(* observers with the update type asked for.                               *)
(***************************************************************************)
updateTask(ts, update) ==
    [i \in 1..Len(ts) |-> IF ts[i].id = update.id THEN update ELSE ts[i]]

deleteTask(ts, update) == SelectSeq(ts, LAMBDA t : t.id # update.id)

\* The id the server gives a new task.
RECURSIVE maxId(_)
maxId(ts) == IF ts = << >> THEN MaxTasks ELSE Max(Head(ts).id, maxId(Tail(ts)))
addTask(ts, update) == << [update EXCEPT !.id = maxId(ts) + 1] >> \o ts

\* Whether the operation can succeed: an update or a deletion needs its task.
canResolve(ts, op) == op.actionType = "ADD_TASK" \/ op.update.id \in Ids(ts)

\* The collection after the operation, and the payload of its notification.
applied(ts, op) ==
    CASE op.actionType = "UPDATE_TASK" -> updateTask(ts, op.update)
      [] op.actionType = "ADD_TASK" -> addTask(ts, op.update)
      [] op.actionType = "DELETE_TASK" -> deleteTask(ts, op.update)
payload(ts, op) ==
    IF op.actionType = "ADD_TASK" THEN Head(addTask(ts, op.update)) ELSE op.update

(***************************************************************************)
(* #handleViewAction, in its two parts: up to the await, and from the      *)
(* await on.                                                               *)
(***************************************************************************)
Op(actionType, updateType, update) ==
    [actionType |-> actionType, updateType |-> updateType, update |-> update]

\* this.#taskPresenter.get(id).<method>(): a TypeError when the map has no
\* controller for the id.
onPresenter(w, id, method) ==
    IF id \in DOMAIN w.taskPresenter
    THEN [w EXCEPT !.taskPresenter[id] = call(@, method)]
    ELSE [w EXCEPT !.threw = TRUE]

\* Lines 210-216, 222-224, 230-232: block(), the transient state, the call.
handleViewActionBegin(w, op) ==
    LET w1 == [w EXCEPT !.uiBlocker = block(@)]
    IN CASE op.actionType = "UPDATE_TASK" -> onPresenter(w1, op.update.id, "setSaving")
         [] op.actionType = "ADD_TASK" ->
              [w1 EXCEPT !.taskNewPresenter = newSetSaving(@)]
         [] op.actionType = "DELETE_TASK" -> onPresenter(w1, op.update.id, "setDeleting")

\* The catch blocks, lines 217-219, 225-227, 233-235.
handleViewActionCatch(w, op) ==
    LET w1 == IF op.actionType = "ADD_TASK"
              THEN [w EXCEPT !.taskNewPresenter = newSetAborting(@)]
              ELSE onPresenter(w, op.update.id, "setAborting")
    IN IF w1.threw THEN w1 ELSE [w1 EXCEPT !.calls = Append(@, "setAborting")]

\* The operation resolved: the collection changed and the observers ran.  An
\* observer that throws makes the operation reject after all.
modelResolved(w, op) ==
    LET w1 == [w EXCEPT !.tasksModel = applied(@, op)]
        w2 == handleModelEvent(w1, op.updateType, payload(w.tasksModel, op))
    IN IF w2.threw
       THEN handleViewActionCatch([w2 EXCEPT !.threw = FALSE, !.observerThrew = TRUE], op)
       ELSE w2

\* #handleViewAction without the await: unblock() runs before the operation
\* settles.
handleViewActionEndNotAwaiting(w, op, resolved) ==
    LET w0 == [w EXCEPT !.uiBlocker = unblock(@), !.calls = Append(@, "unblock")]
    IN IF resolved THEN modelResolved(w0, op) ELSE handleViewActionCatch(w0, op)

\* From the await on: the outcome, and unblock() when nothing was thrown.
handleViewActionEnd(w, op, resolved) ==
    LET w1 == IF resolved THEN modelResolved(w, op) ELSE handleViewActionCatch(w, op)
    IN IF w1.threw THEN w1
       ELSE [w1 EXCEPT !.uiBlocker = unblock(@), !.calls = Append(@, "unblock")]

(***************************************************************************)
(* The steps.                                                              *)
(***************************************************************************)
\* The operation that ran, the task id it was about (0: none), the item
\* controllers it constructed and destroyed, whether it ended in a
\* TypeError that nothing caught, and what it completed, in order.
Event(op, id, w) ==
    [op |-> op, id |-> id, created |-> w.created, destroyed |-> w.destroyed,
     threw |-> w.threw, calls |-> w.calls]
NoWorld == [created |-> 0, destroyed |-> 0, threw |-> FALSE, calls |-> << >>]

\* What the user can do: nothing while the UI is blocked.
interactive == ~uiBlocker.blocked
\* The cards and the creation form are in the task list.
cardsShown == interactive /\ taskListComponent
\* The controllers whose cards the user touches.
touched == {i \in DOMAIN taskPresenter : i <= MaxTouched}
touchedDetached == {k \in 1..Len(detached) : detached[k].task.id <= MaxTouched}

RequestedUpdateType == {"PATCH", "MINOR", "MAJOR"}

\* What the user makes of a task: the favorite flag toggled, or another due date.
edits(task) ==
    {[task EXCEPT !.isFavorite = ~@]}
      \cup {[task EXCEPT !.dueDate = d] : d \in (NoDate..MaxDue) \ {task.dueDate}}
\* What the creation form submits; the id is the server's to give.
newTask == Task(0, FALSE, NoDate)

Init ==
    /\ tasksModel = << >>
    /\ filterModel = "ALL"
    /\ currentSortType = "DEFAULT"
    /\ renderedTaskCount = TASK_COUNT_PER_STEP
    /\ isLoading = TRUE
    /\ taskPresenter = << >>
    /\ detached = << >>
    /\ taskNewPresenter = "INACTIVE"
    /\ sortComponent = FALSE
    /\ loadMoreButtonComponent = FALSE
    /\ noTaskComponent = FALSE
    /\ loadingComponent = FALSE
    /\ taskListComponent = FALSE
    /\ uiBlocker = UiBlockerIdle
    /\ pending = << >>
    /\ started = 0
    /\ unblocked = 0
    /\ lastEvent = Event("new", 0, NoWorld)

keepCalls == UNCHANGED << pending, started, unblocked >>

\* init(): the first render
init ==
    /\ lastEvent.op = "new"
    /\ LET w == renderBoard(World)
       IN Become(w) /\ lastEvent' = Event("init", 0, w)
    /\ keepCalls

\* TasksModel.init(): the collection is loaded and Init is notified.
ModelInit ==
    /\ isLoading /\ lastEvent.op # "new"
    /\ \E n \in InitialLengths :
         LET w == handleModelEvent([World EXCEPT !.tasksModel = InitialCollection(n)],
                                   "INIT", << >>)
         IN Become(w) /\ lastEvent' = Event("INIT", 0, w)
    /\ keepCalls

\* The user picks another filter category.
FilterChange ==
    /\ interactive /\ lastEvent.op # "new"
    /\ \E f \in FilterType \ {filterModel} :
         LET w == setFilter(World, "MAJOR", f)
         IN Become(w) /\ lastEvent' = Event("filter", 0, w)
    /\ keepCalls

\* The user picks a sort mode in the sort control.
SortTypeChange ==
    /\ interactive /\ sortComponent
    /\ \E sortType \in SortType :
         LET w == handleSortTypeChange(World, sortType)
         IN /\ Become(w)
            /\ lastEvent' = Event(IF sortType = currentSortType THEN "sortSame" ELSE "sort",
                                  0, w)
    /\ keepCalls

LoadMoreButtonClick ==
    /\ interactive /\ loadMoreButtonComponent
    /\ LET w == handleLoadMoreButtonClick(World)
       IN Become(w) /\ lastEvent' = Event("loadMore", 0, w)
    /\ keepCalls

\* The user asks for the creation form.
CreateTask ==
    /\ interactive /\ lastEvent.op # "new"
    /\ LET w == createTask(World)
       IN Become(w) /\ lastEvent' = Event("createTask", 0, w)
    /\ keepCalls

\* The user closes the creation form.
NewTaskCancel ==
    /\ cardsShown /\ taskNewPresenter = "ACTIVE"
    /\ Become([World EXCEPT !.taskNewPresenter = newDestroy(@)])
    /\ lastEvent' = Event("newCancel", 0, NoWorld)
    /\ keepCalls

\* The user opens the edit form of a card: the controller signals the mode
\* change, then shows its form.
EditClick ==
    /\ cardsShown
    /\ \/ \E i \in touched :
            /\ taskPresenter[i].state = "IDLE"
            /\ Become([handleModeChange(World) EXCEPT !.taskPresenter[i].state = "EDITING"])
            /\ lastEvent' = Event("edit", i, NoWorld)
       \/ \E k \in touchedDetached :
            /\ detached[k].state = "IDLE"
            /\ Become([handleModeChange(World) EXCEPT !.detached[k].state = "EDITING"])
            /\ lastEvent' = Event("editDetached", detached[k].task.id, NoWorld)
    /\ keepCalls

\* The user closes the edit form of a card without saving.
EditCancel ==
    /\ cardsShown
    /\ \/ \E i \in touched :
            /\ taskPresenter[i].state = "EDITING"
            /\ Become([World EXCEPT !.taskPresenter[i].state = "IDLE"])
            /\ lastEvent' = Event("editCancel", i, NoWorld)
       \/ \E k \in touchedDetached :
            /\ detached[k].state = "EDITING"
            /\ Become([World EXCEPT !.detached[k].state = "IDLE"])
            /\ lastEvent' = Event("editCancel", detached[k].task.id, NoWorld)
    /\ keepCalls

\* handleViewAction is invoked with op: it runs up to its await, or ends in
\* the TypeError.
Invoke(op) ==
    /\ started < MaxActions
    /\ LET w == handleViewActionBegin(World, op)
       IN /\ Become(w)
          /\ pending' = IF w.threw THEN pending ELSE Append(pending, op)
          /\ lastEvent' = Event(op.actionType, op.update.id, w)
    /\ started' = started + 1
    /\ UNCHANGED unblocked

\* The tasks of the cards a gesture can come from: idle or with the form open.
gestureTasks ==
    {taskPresenter[i].task : i \in {j \in touched : taskPresenter[j].state \in {"IDLE", "EDITING"}}}
      \cup {detached[k].task :
               k \in {j \in touchedDetached : detached[j].state \in {"IDLE", "EDITING"}}}

\* The user saves a card: the favorite button, or the edit form submitted.
UpdateTask ==
    /\ cardsShown
    /\ \E task \in gestureTasks, updateType \in RequestedUpdateType :
         \E update \in edits(task) : Invoke(Op("UPDATE_TASK", updateType, update))

\* The user deletes a card.
DeleteTask ==
    /\ cardsShown
    /\ \E task \in gestureTasks, updateType \in RequestedUpdateType :
         Invoke(Op("DELETE_TASK", updateType, task))

\* The user submits the creation form.
AddTask ==
    /\ cardsShown /\ taskNewPresenter = "ACTIVE"
    /\ \E updateType \in RequestedUpdateType : Invoke(Op("ADD_TASK", updateType, newTask))

\* The model answers an invocation, which runs to its end.
Settle(k, resolved) ==
    LET op == pending[k]
        w == handleViewActionEnd(World, op, resolved)
    IN /\ Become(w)
       /\ pending' = SubSeq(pending, 1, k - 1) \o SubSeq(pending, k + 1, Len(pending))
       /\ unblocked' = IF w.threw THEN unblocked ELSE unblocked + 1
       /\ lastEvent' = Event(IF ~resolved THEN "rejected"
                             ELSE IF w.observerThrew THEN "observerThrew"
                             ELSE op.updateType,
                             op.update.id, w)
       /\ UNCHANGED started

Resolve == \E k \in 1..Len(pending) : canResolve(tasksModel, pending[k]) /\ Settle(k, TRUE)
Reject == \E k \in 1..Len(pending) : Settle(k, FALSE)

\* The error affordance of a controller ends: an item is idle again, the
\* creation form is active again.
AbortingEnds ==
    /\ \/ \E i \in DOMAIN taskPresenter :
            /\ taskPresenter[i].state = "ABORTING"
            /\ Become([World EXCEPT !.taskPresenter[i].state = "IDLE"])
            /\ lastEvent' = Event("abortingEnds", i, NoWorld)
       \/ /\ taskNewPresenter = "ABORTING"
          /\ Become([World EXCEPT !.taskNewPresenter = "ACTIVE"])
          /\ lastEvent' = Event("abortingEnds", 0, NoWorld)
    /\ keepCalls

\* The blocker's lower limit passes: a deferred unblock() takes effect.
LowerLimitPasses ==
    /\ uiBlocker.blocked /\ uiBlocker.elapsed < LOWER_LIMIT
    /\ uiBlocker' = IF uiBlocker.unblockRequested THEN UiBlockerIdle
                    ELSE [uiBlocker EXCEPT !.elapsed = LOWER_LIMIT]
    /\ lastEvent' = Event("lowerLimit", 0, NoWorld)
    /\ UNCHANGED << tasksModel, filterModel, boardVars >>
    /\ keepCalls

\* The blocker's upper limit passes without unblock(): the UI is released.
UpperLimitPasses ==
    /\ uiBlocker.blocked /\ uiBlocker.elapsed >= LOWER_LIMIT
    /\ uiBlocker' = UiBlockerIdle
    /\ lastEvent' = Event("upperLimit", 0, NoWorld)
    /\ UNCHANGED << tasksModel, filterModel, boardVars >>
    /\ keepCalls

Next ==
    \/ init
    \/ ModelInit
    \/ FilterChange
    \/ SortTypeChange
    \/ LoadMoreButtonClick
    \/ CreateTask
    \/ NewTaskCancel
    \/ EditClick
    \/ EditCancel
    \/ UpdateTask
    \/ DeleteTask
    \/ AddTask
    \/ Resolve
    \/ Reject
    \/ AbortingEnds
    \/ LowerLimitPasses
    \/ UpperLimitPasses

Spec == Init /\ [][Next]_vars

(***************************************************************************)
(* What the properties below speak of.                                     *)
(***************************************************************************)
\* The derived (filtered and sorted) sequence of the current state.
derived == tasks(World)
\* The item controllers that were created and not destroyed: those of the
\* map and those the map dropped.
mapControllers == {taskPresenter[i] : i \in DOMAIN taskPresenter}
detachedControllers == {detached[k] : k \in 1..Len(detached)}
\* The derived sequence of the state a step leads to.
derivedNext ==
    tasks([tasksModel |-> tasksModel', filterModel |-> filterModel',
           currentSortType |-> currentSortType'])
\* How many live item controllers show the task id.
aliveFor(id) ==
    (IF id \in DOMAIN taskPresenter THEN 1 ELSE 0)
      + Cardinality({k \in 1..Len(detached) : detached[k].task.id = id})
aliveIds == DOMAIN taskPresenter \cup {detached[k].task.id : k \in 1..Len(detached)}

C2_OneControllerPerId == \A id \in aliveIds : aliveFor(id) <= 1

(***************************************************************************)
(* C3.  When the model operation of an invocation rejects, the collection, *)
(* renderedCount, the sort mode and the set of item controllers stay as    *)
(* they are, the handler raises no error, and every live controller of the *)
(* task that the invocation had left Saving or Deleting is set Aborting    *)
(* (so is the creation form that is Saving); from Aborting a controller    *)
(* goes to Idle (the creation form to Active).                             *)
(***************************************************************************)
C3_FailureKeepsStateAndAborts ==
    [][/\ lastEvent'.op = "rejected"
            => LET id == lastEvent'.id
               IN /\ tasksModel' = tasksModel
                  /\ renderedTaskCount' = renderedTaskCount
                  /\ currentSortType' = currentSortType
                  /\ DOMAIN taskPresenter' = DOMAIN taskPresenter
                  /\ Len(detached') = Len(detached)
                  /\ ~lastEvent'.threw
                  /\ (id = 0 /\ taskNewPresenter = "SAVING")
                        => taskNewPresenter' = "ABORTING"
                  /\ (id \in DOMAIN taskPresenter
                        /\ taskPresenter[id].state \in {"SAVING", "DELETING"})
                        => taskPresenter'[id].state = "ABORTING"
                  /\ \A k \in 1..Len(detached) :
                        (detached[k].task.id = id
                           /\ detached[k].state \in {"SAVING", "DELETING"})
                        => detached'[k].state = "ABORTING"
       /\ lastEvent'.op = "abortingEnds"
            => IF lastEvent'.id = 0 THEN taskNewPresenter' = "ACTIVE"
               ELSE taskPresenter'[lastEvent'.id].state = "IDLE"]_vars

(***************************************************************************)
(* C4.  Every invocation of handleViewAction that has ended has released   *)
(* the UI blocker: the invocations that called block() are those that      *)
(* called unblock() and those that still await the model.                  *)
(***************************************************************************)
C4_EveryBlockIsReleased == started = unblocked + Len(pending)

(***************************************************************************)
(* C5.  An action or a Patch notification for a task id the map holds no   *)
(* controller for raises no error: no handler ends in a TypeError, in      *)
(* handleViewAction or in the observer.                                    *)
(***************************************************************************)
C5_StaleReferenceRaisesNoError == ~lastEvent.threw /\ lastEvent.op # "observerThrew"

(***************************************************************************)
(* C6.  No controller stays Saving or Deleting once its invocation has     *)
(* ended: an item controller that is Saving or Deleting has an invocation  *)
(* for its task id that awaits the model, and so has the creation form     *)
(* that is Saving.                                                         *)
(***************************************************************************)
awaited(id) ==
    \E k \in 1..Len(pending) :
        pending[k].actionType # "ADD_TASK" /\ pending[k].update.id = id
C6_NoControllerLeftSaving ==
    /\ \A p \in mapControllers \cup detachedControllers :
          p.state \in {"SAVING", "DELETING"} => awaited(p.task.id)
    /\ taskNewPresenter = "SAVING"
          => \E k \in 1..Len(pending) : pending[k].actionType = "ADD_TASK"

(***************************************************************************)
(* C7.  At most one edit form is open: the item controllers that are       *)
(* Editing and the creation form that is Active are at most one.           *)
(***************************************************************************)
openEditors ==
    Cardinality({i \in DOMAIN taskPresenter : taskPresenter[i].state = "EDITING"})
      + Cardinality({k \in 1..Len(detached) : detached[k].state = "EDITING"})
      + (IF taskNewPresenter = "ACTIVE" THEN 1 ELSE 0)
C7_SingleOpenEditor == openEditors <= 1

(***************************************************************************)
(* C8.  createTask ends with the filter All, the sort mode Default,        *)
(* renderedCount at the base pagination size, no item controller Editing   *)
(* and the creation form Active.                                           *)
(***************************************************************************)
C8_CreateTaskOpensTheForm ==
    lastEvent.op = "createTask"
        => /\ filterModel = "ALL"
           /\ currentSortType = "DEFAULT"
           /\ renderedTaskCount = TASK_COUNT_PER_STEP
           /\ \A p \in mapControllers \cup detachedControllers : p.state # "EDITING"
           /\ taskNewPresenter = "ACTIVE"

(***************************************************************************)
(* C9.  A load-more click sets renderedCount to the smaller of the derived *)
(* length and renderedCount + TASK_COUNT_PER_STEP, creates item            *)
(* controllers for exactly the tasks at the positions from the old to the  *)
(* new renderedCount of the derived sequence, destroys no controller and   *)
(* leaves the others as they are, and removes the load-more control        *)
(* exactly when the new renderedCount reaches the derived length.          *)
(***************************************************************************)
C9_LoadMoreRevealsNextStep ==
    [][lastEvent'.op = "loadMore"
         => LET len == Len(derived)
                new == Min(len, renderedTaskCount + TASK_COUNT_PER_STEP)
                revealed == SubSeq(derived, renderedTaskCount + 1, new)
                revealedIds == Ids(revealed)
            IN /\ renderedTaskCount' = new
               /\ lastEvent'.created = Len(revealed)
               /\ lastEvent'.destroyed = 0
               /\ DOMAIN taskPresenter' = DOMAIN taskPresenter \cup revealedIds
               /\ \A k \in 1..Len(revealed) :
                     taskPresenter'[revealed[k].id] = [task |-> revealed[k], state |-> "IDLE"]
               /\ \A i \in DOMAIN taskPresenter \ revealedIds :
                     taskPresenter'[i] = taskPresenter[i]
               /\ SubSeq(detached', 1, Len(detached)) = detached
               /\ {detached'[k] : k \in Len(detached) + 1 .. Len(detached')}
                     = {taskPresenter[i] : i \in DOMAIN taskPresenter \cap revealedIds}
               /\ loadMoreButtonComponent' = (new < len)
               /\ derivedNext = derived]_vars

\* Ten tasks, eight of them shown: one load-more click has shown all ten and
\* removed the control.
C9_Witness ==
    /\ lastEvent.op = "loadMore"
    /\ lastEvent.created = 2
    /\ Len(derived) = TASK_COUNT_PER_STEP + 2
    /\ renderedTaskCount = TASK_COUNT_PER_STEP + 2
    /\ Cardinality(DOMAIN taskPresenter) = TASK_COUNT_PER_STEP + 2
    /\ ~loadMoreButtonComponent

(***************************************************************************)
(* C10.  A Patch notification for a task the map holds a controller for    *)
(* re-initializes that controller with the new data and nothing else: no   *)
(* controller is constructed or destroyed, every other controller, the     *)
(* key set of the map, renderedCount, the sort mode and the sort,          *)
(* load-more and placeholder components stay as they are.                  *)
(***************************************************************************)
C10_PatchReinitializesOneController ==
    [][lastEvent'.op = "PATCH"
         => LET id == lastEvent'.id
            IN /\ id \in DOMAIN taskPresenter
               /\ DOMAIN taskPresenter' = DOMAIN taskPresenter
               /\ \A i \in DOMAIN taskPresenter \ {id} : taskPresenter'[i] = taskPresenter[i]
               /\ detached' = detached
               /\ lastEvent'.created = 0 /\ lastEvent'.destroyed = 0
               /\ taskPresenter'[id].state = "IDLE"
               /\ taskPresenter'[id].task.id = id
               /\ \A k \in 1..Len(tasksModel') :
                     tasksModel'[k].id = id => taskPresenter'[id].task = tasksModel'[k]
               /\ renderedTaskCount' = renderedTaskCount
               /\ currentSortType' = currentSortType
               /\ sortComponent' = sortComponent
               /\ loadMoreButtonComponent' = loadMoreButtonComponent
               /\ noTaskComponent' = noTaskComponent]_vars

\* Task 1, which was no favorite, was made one under a Patch: its controller
\* shows the new data, among the eight controllers of the first page.
C10_Witness ==
    /\ lastEvent.op = "PATCH" /\ lastEvent.id = 1
    /\ Cardinality(DOMAIN taskPresenter) = TASK_COUNT_PER_STEP
    /\ 1 \in DOMAIN taskPresenter
    /\ taskPresenter[1] = [task |-> Task(1, TRUE, 1), state |-> "IDLE"]
    /\ tasksModel[1] = Task(1, TRUE, 1)

(***************************************************************************)
(* C11.  For every filter category and every sort mode, the derived        *)
(* sequence of the collection holds exactly the tasks of the collection    *)
(* that satisfy the predicate of the category, each as often as the        *)
(* collection holds it, and no other task.                                 *)
(***************************************************************************)
Range(ts) == {ts[i] : i \in 1..Len(ts)}
count(ts, t) == Cardinality({i \in 1..Len(ts) : ts[i] = t})
derivedUnder(f, sortType) ==
    tasks([tasksModel |-> tasksModel, filterModel |-> f, currentSortType |-> sortType])

C11_DerivedIsTheFilteredCollection ==
    \A f \in FilterType, sortType \in SortType :
        LET d == derivedUnder(f, sortType)
        IN \A t \in Range(tasksModel) \cup Range(d) :
              count(d, t) = IF filterPredicate(f, t) THEN count(tasksModel, t) ELSE 0

\* The board shows the favorites, sorted by date: some tasks of the
\* collection, not all.
C11_Witness ==
    /\ filterModel = "FAVORITES"
    /\ currentSortType = "DATE_DOWN"
    /\ Len(derived) > 1
    /\ Len(derived) < Len(tasksModel)
    /\ Cardinality(DOMAIN taskPresenter) = Len(derived)

(***************************************************************************)
(* C12.  The order of the derived sequence follows the sort mode.  Under   *)
(* Default two tasks stand as in the collection.  Under DateAscending      *)
(* (DateDescending) no task stands behind a task that is due later         *)
(* (earlier) or has no due date while it has one; two tasks with the same  *)
(* due date, or both without one, stand as in the collection.  The         *)
(* collection itself keeps its order: the tasks that were added, newest    *)
(* first, then the loaded tasks as they were loaded.                       *)
(***************************************************************************)
\* a is to stand before b under the sort mode.
before(sortType, a, b) ==
    /\ a.dueDate # NoDate
    /\ \/ b.dueDate = NoDate
       \/ IF sortType = "DATE_UP" THEN a.dueDate < b.dueDate ELSE a.dueDate > b.dueDate
\* Where the collection holds the task.
position(t) == CHOOSE i \in 1..Len(tasksModel) : tasksModel[i].id = t.id
collectionOrderKept ==
    \A i, j \in 1..Len(tasksModel) :
        i < j => IF tasksModel[i].id > MaxTasks
                 THEN tasksModel[i].id > tasksModel[j].id
                 ELSE tasksModel[i].id < tasksModel[j].id /\ tasksModel[j].id <= MaxTasks

C12_OrderFollowsSortMode ==
    /\ collectionOrderKept
    /\ \A f \in FilterType, sortType \in SortType :
          LET d == derivedUnder(f, sortType)
          IN \A i, j \in 1..Len(d) :
                i < j => IF sortType = "DEFAULT"
                         THEN position(d[i]) < position(d[j])
                         ELSE /\ ~before(sortType, d[j], d[i])
                              /\ d[i].dueDate = d[j].dueDate
                                    => position(d[i]) < position(d[j])

\* Sorted by date, latest first: the task that is due last leads, the task
\* without due date is the last one, and the tasks between them, all due on
\* the same day, stand as in the collection.
C12_Witness ==
    /\ currentSortType = "DATE_DOWN"
    /\ Len(derived) = MaxTasks
    /\ derived[1].dueDate = MaxDue
    /\ derived[1].id > derived[2].id
    /\ derived[Len(derived)].dueDate = NoDate
    /\ derived[2].dueDate = derived[3].dueDate /\ derived[2].id < derived[3].id
    /\ Cardinality(DOMAIN taskPresenter) = TASK_COUNT_PER_STEP

(***************************************************************************)
(* C13.  The UI blocker of the board (lower limit LOWER_LIMIT, upper limit *)
(* UPPER_LIMIT).  A step in which handleViewAction calls unblock() before  *)
(* the lower limit has passed leaves the UI blocked; the UI then stays     *)
(* blocked until the step in which the lower limit passes, and that step   *)
(* releases it.  A blocked UI for which unblock() is not called stays      *)
(* blocked until the step in which the upper limit passes, and that step   *)
(* releases it.                                                            *)
(***************************************************************************)
C13_BlockerKeepsItsLimits ==
    [][/\ (uiBlocker.blocked /\ uiBlocker.elapsed < LOWER_LIMIT /\ unblocked' > unblocked)
            => uiBlocker'.blocked /\ uiBlocker'.unblockRequested
       /\ (uiBlocker.blocked /\ uiBlocker.unblockRequested)
            => /\ uiBlocker.elapsed < LOWER_LIMIT
               /\ uiBlocker'.blocked = (lastEvent'.op # "lowerLimit")
       /\ (uiBlocker.blocked /\ ~uiBlocker.unblockRequested /\ unblocked' = unblocked)
            => /\ uiBlocker'.blocked = (lastEvent'.op # "upperLimit")
               /\ lastEvent'.op = "upperLimit" => uiBlocker.elapsed >= LOWER_LIMIT]_vars

\* The one invocation there was has called unblock() before the lower limit
\* passed; the lower limit has passed now and the UI is released.
C13_Witness ==
    /\ lastEvent.op = "lowerLimit"
    /\ ~uiBlocker.blocked
    /\ started = 1 /\ unblocked = 1 /\ pending = << >>

(***************************************************************************)
(* C14.  No two invocations of handleViewAction for the same task id await *)
(* the model at the same time.                                             *)
(***************************************************************************)
C14_OneOutstandingMutationPerId ==
    \A k1, k2 \in 1..Len(pending) :
        (/\ k1 < k2
         /\ pending[k1].actionType # "ADD_TASK"
         /\ pending[k2].actionType # "ADD_TASK")
        => pending[k1].update.id # pending[k2].update.id

(***************************************************************************)
(* C15.  When the model operation of an invocation resolves, the handler   *)
(* of the notification has run to its end before unblock() is called, and  *)
(* unblock() is the last thing the invocation does; the board is then what *)
(* the notification alone makes of it, and the blocker what unblock()      *)
(* makes of it.                                                            *)
(***************************************************************************)
C15_NotifiedBeforeReleased ==
    [][lastEvent'.op \in {"PATCH", "MINOR", "MAJOR"}
         => /\ lastEvent'.calls = << lastEvent'.op, "unblock" >>
            /\ unblocked' = unblocked + 1
            /\ Len(pending') = Len(pending) - 1
            /\ \E k \in 1..Len(pending) :
                  LET op == pending[k]
                      n == handleModelEvent([World EXCEPT !.tasksModel = tasksModel'],
                                            op.updateType, payload(tasksModel, op))
                  IN /\ op.updateType = lastEvent'.op
                     /\ op.update.id = lastEvent'.id
                     /\ tasksModel' = applied(tasksModel, op)
                     /\ filterModel' = filterModel
                     /\ currentSortType' = n.currentSortType
                     /\ renderedTaskCount' = n.renderedTaskCount
                     /\ isLoading' = n.isLoading
                     /\ taskPresenter' = n.taskPresenter
                     /\ detached' = n.detached
                     /\ taskNewPresenter' = n.taskNewPresenter
                     /\ sortComponent' = n.sortComponent
                     /\ loadMoreButtonComponent' = n.loadMoreButtonComponent
                     /\ noTaskComponent' = n.noTaskComponent
                     /\ loadingComponent' = n.loadingComponent
                     /\ taskListComponent' = n.taskListComponent
                     /\ uiBlocker' = unblock(uiBlocker)]_vars

\* A deletion has resolved under Minor before the blocker's lower limit
\* passed: the board is rendered anew without the task, and the unblock()
\* that followed is deferred.
C15_Witness ==
    /\ lastEvent.op = "MINOR" /\ lastEvent.id = 1
    /\ lastEvent.calls = << "MINOR", "unblock" >>
    /\ lastEvent.created = TASK_COUNT_PER_STEP
    /\ 1 \notin Ids(tasksModel)
    /\ 1 \notin DOMAIN taskPresenter
    /\ uiBlocker.blocked /\ uiBlocker.unblockRequested

(***************************************************************************)
(* What a full re-render leaves: the board shows the first n tasks of the  *)
(* derived sequence d, or all of them when they are fewer.                 *)
(***************************************************************************)
window(d, n) == SubSeq(d, 1, Min(n, Len(d)))
freshControllers(ts) ==
    [i \in Ids(ts) |-> [task |-> ts[CHOOSE k \in 1..Len(ts) : ts[k].id = i],
                        state |-> "IDLE"]]
\* The step has destroyed every item controller and the creation form, and
\* has rendered the board from d with n as the count of shown tasks (the
\* loading indicator alone while the collection is being loaded).
renderedAnew(d, n) ==
    LET shown == IF isLoading' THEN << >> ELSE window(d, n)
    IN /\ lastEvent'.destroyed = Cardinality(DOMAIN taskPresenter) + Len(detached)
       /\ detached' = << >>
       /\ taskNewPresenter' = "INACTIVE"
       /\ lastEvent'.created = Len(shown)
       /\ taskPresenter' = freshControllers(shown)
       /\ loadingComponent' = isLoading'
       /\ sortComponent' = (~isLoading' /\ Len(d) > 0)
       /\ noTaskComponent' = (~isLoading' /\ Len(d) = 0)
       /\ loadMoreButtonComponent' = (~isLoading' /\ Len(d) > n)

(***************************************************************************)
(* C16.  A Minor notification destroys every item controller and the       *)
(* creation form, sets renderedCount to the smaller of renderedCount and   *)
(* the length of the new derived sequence, leaves the sort mode as it is,  *)
(* and renders the board from the new derived sequence.                    *)
(***************************************************************************)
C16_MinorClampsAndRerenders ==
    [][lastEvent'.op = "MINOR"
         => /\ renderedTaskCount' = Min(renderedTaskCount, Len(derivedNext))
            /\ currentSortType' = currentSortType
            /\ filterModel' = filterModel
            /\ renderedAnew(derivedNext, renderedTaskCount')]_vars

(***************************************************************************)
(* C17.  A Major notification, of the collection model or of the filter    *)
(* model, destroys every item controller and the creation form, sets       *)
(* renderedCount to TASK_COUNT_PER_STEP and the sort mode to Default, and  *)
(* renders the board from the new derived sequence; and every step that    *)
(* changes the filter is such a reset.                                     *)
(***************************************************************************)
C17_MajorResetsAndRerenders ==
    [][/\ lastEvent'.op \in {"MAJOR", "filter"}
            => /\ renderedTaskCount' = TASK_COUNT_PER_STEP
               /\ currentSortType' = "DEFAULT"
               /\ renderedAnew(derivedNext, TASK_COUNT_PER_STEP)
       /\ filterModel' # filterModel
            => /\ lastEvent'.op \in {"filter", "createTask"}
               /\ renderedTaskCount' = TASK_COUNT_PER_STEP
               /\ currentSortType' = "DEFAULT"
               /\ lastEvent'.destroyed = Cardinality(DOMAIN taskPresenter) + Len(detached)
               /\ taskPresenter' = freshControllers(IF isLoading' THEN << >>
                                     ELSE window(derivedNext, TASK_COUNT_PER_STEP))]_vars

(***************************************************************************)
(* C18.  A sort-change intent with the sort mode that is active changes    *)
(* nothing: no item controller is constructed or destroyed and no field    *)
(* of the board or of the models changes.  With another sort mode it       *)
(* changes the sort mode, sets renderedCount to TASK_COUNT_PER_STEP,       *)
(* destroys every item controller and the creation form and renders the    *)
(* board from the derived sequence in its new order.                       *)
(***************************************************************************)
C18_SortChangeResetsOrDoesNothing ==
    [][/\ lastEvent'.op = "sortSame"
            => /\ UNCHANGED << tasksModel, filterModel, boardVars, uiBlocker >>
               /\ lastEvent'.created = 0 /\ lastEvent'.destroyed = 0
       /\ lastEvent'.op = "sort"
            => /\ currentSortType' \in SortType \ {currentSortType}
               /\ UNCHANGED << tasksModel, filterModel >>
               /\ renderedTaskCount' = TASK_COUNT_PER_STEP
               /\ renderedAnew(derivedNext, TASK_COUNT_PER_STEP)]_vars

(***************************************************************************)
(* C19.  Once INIT has been received the ids of the live item controllers  *)
(* are exactly the ids of the first min(renderedTaskCount, length) tasks   *)
(* of the derived sequence: the rendered window is a prefix of the         *)
(* filtered and sorted sequence.  Before INIT no item controller exists.   *)
(***************************************************************************)
C19_RenderedWindowIsAPrefix ==
    /\ isLoading => aliveIds = {}
    /\ ~isLoading => aliveIds = Ids(window(derived, renderedTaskCount))

(***************************************************************************)
(* C20.  When loading has finished and the derived sequence is not empty,  *)
(* at least one item controller is rendered and the placeholder of the     *)
(* empty board is absent; when the derived sequence is empty, the          *)
(* placeholder is shown and there is no item controller, no sort control   *)
(* and no load-more control.  A Minor notification that empties the        *)
(* derived sequence followed by one that fills it again is one such case.  *)
(***************************************************************************)
C20_CardsOrPlaceholder ==
    /\ (~isLoading /\ Len(derived) > 0)
         => (DOMAIN taskPresenter # {} /\ ~noTaskComponent)
    /\ (~isLoading /\ Len(derived) = 0)
         => /\ noTaskComponent
            /\ aliveIds = {}
            /\ ~sortComponent
            /\ ~loadMoreButtonComponent

=============================================================================
